---- MODULE Spec2Model ----
(* A model of rules_python/whl.py: the Wheel class (archive identity from   *)
(* the file name, metadata lookup inside the archive, dependency queries)   *)
(* and the METADATA text parser Wheel._parse_metadata.                      *)
(*                                                                          *)
(* Text is modelled character by character: a string is a sequence of       *)
(* one-character strings, so that splitting, substitution, stripping and    *)
(* lexicographic sorting are computed the way the code computes them.       *)
(* An optional value (Python None or a value) is a sequence of length 0 or  *)
(* 1: None is <<>>, and Some(v) is <<v>>.                                   *)
EXTENDS Integers, Sequences, FiniteSets, TLC

\* path:    the path the Wheel was constructed with
\* archive: the two metadata entries of the zip file at that path
\* env:     the version of the running interpreter
\* call:    the last call made on the Wheel and how it ended
VARIABLES path, archive, env, call

vars == <<path, archive, env, call>>

----------------------------------------------------------------------------
(* Bounds of the model.                                                     *)

MaxExtraLines == 1
MaxReqLines == 2
MaxGroups == 2

----------------------------------------------------------------------------
(* Strings.                                                                 *)

None == <<>>
Some(v) == <<v>>

\* The printable ASCII characters in code-point order, from 32 (space); the
\* two characters that no modelled text uses are spelled out.
Ascii ==
  <<" ", "!", "\"", "#", "$", "%", "&", "'", "(", ")", "*", "+", ",", "-", ".", "/",
    "0", "1", "2", "3", "4", "5", "6", "7", "8", "9", ":", ";", "<", "=", ">", "?",
    "@", "A", "B", "C", "D", "E", "F", "G", "H", "I", "J", "K", "L", "M", "N", "O",
    "P", "Q", "R", "S", "T", "U", "V", "W", "X", "Y", "Z", "[", "backslash", "]", "^", "_",
    "backquote", "a", "b", "c", "d", "e", "f", "g", "h", "i", "j", "k", "l", "m", "n", "o",
    "p", "q", "r", "s", "t", "u", "v", "w", "x", "y", "z", "{", "|", "}", "~">>

\* ord(c) and chr(n)
OrdTable == [c \in {Ascii[i] : i \in 1..Len(Ascii)} |-> 31 + (CHOOSE i \in 1..Len(Ascii) : Ascii[i] = c)]

Ord(c) == OrdTable[c]

Chr(n) == Ascii[n - 31]

IsUpper(c) == Ord(c) >= 65 /\ Ord(c) <= 90
IsLower(c) == Ord(c) >= 97 /\ Ord(c) <= 122
IsDigit(c) == Ord(c) >= 48 /\ Ord(c) <= 57

Range(s) == {s[i] : i \in 1..Len(s)}

\* Python's str < str: the first differing code point decides, a proper
\* prefix is smaller.
RECURSIVE StrLess(_, _)
StrLess(a, b) ==
  IF b = <<>> THEN FALSE
  ELSE IF a = <<>> THEN TRUE
  ELSE IF Head(a) = Head(b) THEN StrLess(Tail(a), Tail(b))
  ELSE Ord(Head(a)) < Ord(Head(b))

\* str.lower()
Lower(s) == [i \in 1..Len(s) |-> IF IsUpper(s[i]) THEN Chr(Ord(s[i]) + 32) ELSE s[i]]

\* str.strip(): leading and trailing white space removed.
RECURSIVE LStrip(_)
LStrip(s) == IF s # <<>> /\ Head(s) = " " THEN LStrip(Tail(s)) ELSE s

RECURSIVE RStrip(_)
RStrip(s) ==
  IF s # <<>> /\ s[Len(s)] = " " THEN RStrip(SubSeq(s, 1, Len(s) - 1)) ELSE s

Strip(s) == RStrip(LStrip(s))

\* str.split(sep) and re.split('[...]', s) for a set of one-character
\* separators: the list of the pieces between separators, never empty.
RECURSIVE Split(_, _)
Split(s, seps) ==
  IF \A i \in 1..Len(s) : s[i] \notin seps THEN <<s>>
  ELSE LET k == CHOOSE i \in 1..Len(s) :
                  s[i] \in seps /\ \A j \in 1..(i - 1) : s[j] \notin seps
       IN  <<SubSeq(s, 1, k - 1)>> \o Split(SubSeq(s, k + 1, Len(s)), seps)

\* re.sub('[...]', repl, s) for a character class: every character of the
\* class is replaced by repl.
ReSub(class, repl, s) == [i \in 1..Len(s) |-> IF s[i] \in class THEN repl ELSE s[i]]

\* sorted(s) on a list of strings: a stable sort. An element goes after
\* every smaller element and after the earlier elements equal to it.
SortStrings(s) ==
  LET pos(i) == 1 + Cardinality({j \in 1..Len(s) :
                     \/ StrLess(s[j], s[i])
                     \/ (~StrLess(s[i], s[j]) /\ j < i)})
  IN  [k \in 1..Len(s) |-> s[CHOOSE i \in 1..Len(s) : pos(i) = k]]

\* All sequences over S of length at most n.
SeqsUpTo(S, n) == UNION {[1..k -> S] : k \in 0..n}

----------------------------------------------------------------------------
(* Archive identity: Wheel.basename, distribution, version,                 *)
(* repository_name.                                                         *)

\* basename() without os.path.basename: the path as given.
basename_WholePath(p) == p

\* os.path.basename: the part after the last '/'.
basename(p) == LET parts == Split(p, {"/"}) IN parts[Len(parts)]

\* A call either returns a value or raises.
Ok(v) == [status |-> "ok", value |-> v]
Raise(e) == [status |-> e, value |-> <<>>]

distribution(p) == Ok(Split(basename(p), {"-"})[1])

version(p) ==
  LET parts == Split(basename(p), {"-"})
  IN  IF Len(parts) >= 2 THEN Ok(parts[2]) ELSE Raise("IndexError")

repository_name(p) ==
  LET d == distribution(p)
      v == version(p)
  IN  IF v.status # "ok" THEN v
      ELSE Ok(ReSub({"-", ".", "+"}, "_",
                    <<"p", "y", "p", "i", "_", "_">> \o d.value \o <<"_">> \o v.value))

_dist_info(p) ==
  distribution(p).value \o <<"-">> \o version(p).value
    \o <<".", "d", "i", "s", "t", "-", "i", "n", "f", "o">>

----------------------------------------------------------------------------
(* pkg_resources, as whl.py uses it.                                        *)
(*                                                                          *)
(* A marker is one comparison [var, op, lit]: extra == "lit", or            *)
(* python_version < "lit" / python_version >= "lit". A requirement line is  *)
(* [name, specifier, marker] with an optional marker.                       *)

Letters == {c \in Range(Ascii) : IsUpper(c) \/ IsLower(c)}
Digits == {c \in Range(Ascii) : IsDigit(c)}

\* re.sub('[^...]+', repl, s): every maximal run of characters outside keep
\* is replaced by one repl.
RECURSIVE ReSubRuns(_, _, _)
ReSubRuns(keep, repl, s) ==
  IF s = <<>> THEN <<>>
  ELSE IF Head(s) \in keep THEN <<Head(s)>> \o ReSubRuns(keep, repl, Tail(s))
  ELSE IF Len(s) >= 2 /\ s[2] \notin keep THEN ReSubRuns(keep, repl, Tail(s))
  ELSE <<repl>> \o ReSubRuns(keep, repl, Tail(s))

\* pkg_resources.safe_name
safe_name(n) == ReSubRuns(Letters \cup Digits \cup {"."}, "-", n)

\* pkg_resources.safe_extra
safe_extra(e) == Lower(ReSubRuns(Letters \cup Digits \cup {".", "-"}, "_", e))

\* pkg_resources.parse_requirements on one Requires-Dist value: the
\* Requirement object, reduced to what its equality and hash compare (key,
\* specifier, marker); the key is the lower-cased safe name.
parse_requirements(line) ==
  [key |-> Lower(safe_name(line.name)),
   specifier |-> line.specifier,
   marker |-> line.marker]

\* str(marker)
MarkerStr(m) == m.var \o <<" ">> \o m.op \o <<" ", "\"">> \o m.lit \o <<"\"">>

\* A version such as 3.0 as the tuple of its numbers (one digit each).
ParseVersion(v) ==
  LET parts == Split(v, {"."}) IN [i \in 1..Len(parts) |-> Ord(parts[i][1]) - 48]

RECURSIVE VersionLess(_, _)
VersionLess(a, b) ==
  IF b = <<>> THEN FALSE
  ELSE IF a = <<>> THEN TRUE
  ELSE IF Head(a) = Head(b) THEN VersionLess(Tail(a), Tail(b))
  ELSE Head(a) < Head(b)

\* Marker.evaluate({'extra': extra}): the interpreter's environment e with
\* extra bound to an optional string. A comparison of extra with None is
\* false.
MarkerEvaluate(m, e, extra) ==
  IF m.var = <<"e", "x", "t", "r", "a">>
  THEN extra = Some(m.lit)
  ELSE LET have == ParseVersion(e)
           want == ParseVersion(m.lit)
       IN  IF m.op = <<"<">> THEN VersionLess(have, want) ELSE ~VersionLess(have, want)

\* pkg_resources.evaluate_marker(marker): the interpreter's environment
\* alone; a marker that names extra raises.
evaluate_marker(m, e) ==
  IF m.var = <<"e", "x", "t", "r", "a">>
  THEN Raise("UndefinedEnvironmentName")
  ELSE Ok(MarkerEvaluate(m, e, None))

----------------------------------------------------------------------------
(* Wheel._parse_metadata.                                                   *)
(*                                                                          *)
(* The three patterns scan the text independently, each for the lines of    *)
(* its own header field, so a METADATA text is the record [name, extras,    *)
(* requires] of what each pattern finds: name is the value of the first     *)
(* Name line, or None when the text has none (name_pattern.search);         *)
(* extras and requires are the Provides-Extra and the Requires-Dist values  *)
(* in line order (findall).                                                 *)

\* sorted(set(values)) for strings.
SortedSet(S) ==
  [k \in 1..Cardinality(S) |->
     CHOOSE x \in S : Cardinality({y \in S : StrLess(y, x)}) = k - 1]

\* list(frozenset(...)): the elements in the order of their hashes, which
\* differs from one interpreter run to the next. The two seeds enumerate
\* the set in opposite orders.
Seeds == {"asc", "desc"}

ReqText(r) ==
  r.key \o <<" ">> \o r.specifier \o <<";">>
    \o (IF r.marker = None THEN <<>> ELSE MarkerStr(r.marker[1]))

HashList(S, seed) ==
  [k \in 1..Cardinality(S) |->
     CHOOSE x \in S :
       Cardinality({y \in S : IF seed = "asc" THEN StrLess(ReqText(y), ReqText(x))
                                              ELSE StrLess(ReqText(x), ReqText(y))}) = k - 1]

\* reqs_for_extra(extra): the requirements without a marker or whose marker
\* holds with extra bound.
reqs_for_extra(requires, e, extra) ==
  LET applies(r) == r.marker = None \/ MarkerEvaluate(r.marker[1], e, extra)
  IN  SelectSeq(requires, applies)

\* d[k] = v on a dict that keeps insertion order.
DictSet(d, k, v) ==
  IF \E i \in 1..Len(d) : d[i].key = k
  THEN [i \in 1..Len(d) |-> IF d[i].key = k THEN [key |-> k, value |-> v] ELSE d[i]]
  ELSE Append(d, [key |-> k, value |-> v])

\* The loop over extras that fills require_map.
RECURSIVE FillRequireMap(_, _, _, _, _, _)
FillRequireMap(require_map, extras, requires, common, e, seed) ==
  IF extras = <<>> THEN require_map
  ELSE LET extra == Head(extras)
           s_extra == safe_extra(Strip(extra))
           reqs == HashList(Range(reqs_for_extra(requires, e, Some(extra))) \ common, seed)
       IN  FillRequireMap(DictSet(require_map, Some(s_extra), reqs),
                          Tail(extras), requires, common, e, seed)

\* The key of run_requires: (extra, str(req.marker)), where str(None) is
\* the text None.
GroupKey(extra, req) ==
  <<extra, IF req.marker = None THEN <<"N", "o", "n", "e">> ELSE MarkerStr(req.marker[1])>>

\* The body of the inner loop: find or create the entry, append req.key.
AddRequirement(run_requires, extra, req) ==
  LET key == GroupKey(extra, req)
      fresh == [requires |-> <<>>,
                extra |-> extra,
                marker |-> IF req.marker = None THEN None ELSE Some(MarkerStr(req.marker[1]))]
      entry == IF \E i \in 1..Len(run_requires) : run_requires[i].key = key
               THEN (CHOOSE g \in Range(run_requires) : g.key = key).value
               ELSE fresh
  IN  DictSet(run_requires, key, [entry EXCEPT !.requires = Append(@, req.key)])

RECURSIVE AddRequirements(_, _, _)
AddRequirements(run_requires, extra, reqs) ==
  IF reqs = <<>> THEN run_requires
  ELSE AddRequirements(AddRequirement(run_requires, extra, Head(reqs)), extra, Tail(reqs))

RECURSIVE GroupRequirements(_, _)
GroupRequirements(run_requires, items) ==
  IF items = <<>> THEN run_requires
  ELSE GroupRequirements(AddRequirements(run_requires, Head(items).key, Head(items).value),
                         Tail(items))

\* x or '' on an optional string.
OrEmpty(x) == IF x = None THEN <<>> ELSE x[1]

\* The sort key (r['extra'] or '', r['marker'] or ''), compared as a tuple.
GroupLess(a, b) ==
  \/ StrLess(OrEmpty(a.extra), OrEmpty(b.extra))
  \/ /\ OrEmpty(a.extra) = OrEmpty(b.extra)
     /\ StrLess(OrEmpty(a.marker), OrEmpty(b.marker))

\* sorted(run_requires.values(), key=...): a stable sort by GroupLess.
SortGroups(s) ==
  LET pos(i) == 1 + Cardinality({j \in 1..Len(s) :
                     \/ GroupLess(s[j], s[i])
                     \/ (~GroupLess(s[i], s[j]) /\ j < i)})
  IN  [k \in 1..Len(s) |-> s[CHOOSE i \in 1..Len(s) : pos(i) = k]]

\* The requires of an entry left in the order of insertion.
SortRequires_Unsorted(requires) == requires

\* entry['requires'] = sorted(entry['requires'])
SortRequires(requires) == SortStrings(requires)

_parse_metadata(text, e, seed) ==
  IF text.name = None THEN Raise("AttributeError")
  ELSE
    LET name == text.name[1]
        extras == SortedSet(Range(text.extras))
        requires == [i \in 1..Len(text.requires) |-> parse_requirements(text.requires[i])]
        common == Range(reqs_for_extra(requires, e, None))
        require_map ==
          FillRequireMap(<<[key |-> None, value |-> HashList(common, seed)]>>,
                         extras, requires, common, e, seed)
        grouped == GroupRequirements(<<>>, require_map)
        values == [i \in 1..Len(grouped) |-> grouped[i].value]
        sorted == SortGroups(values)
        run_requires == [i \in 1..Len(sorted) |->
                           [sorted[i] EXCEPT !.requires = SortRequires(@)]]
    IN  Ok([name |-> name, extras |-> extras, run_requires |-> run_requires])

----------------------------------------------------------------------------
(* Inputs.                                                                  *)

S_extra == <<"e", "x", "t", "r", "a">>
S_python_version == <<"p", "y", "t", "h", "o", "n", "_", "v", "e", "r", "s", "i", "o", "n">>

ExtraIs(lit) == Some([var |-> S_extra, op |-> <<"=", "=">>, lit |-> lit])
PythonBelow(lit) == Some([var |-> S_python_version, op |-> <<"<">>, lit |-> lit])
PythonFrom(lit) == Some([var |-> S_python_version, op |-> <<">", "=">>, lit |-> lit])

Req(name, specifier, marker) == [name |-> name, specifier |-> specifier, marker |-> marker]

\* The interpreters of the tests: Python 2.7 and Python 3.4.
Envs == {<<"2", ".", "7">>, <<"3", ".", "4">>}

NameValues == {<<"m", "o", "c", "k">>}

\* Provides-Extra values: plain, upper case, empty.
ExtraValues == {<<"x">>, <<"F", "o", "o">>, <<>>}

\* Requires-Dist values.
ReqValues ==
  {Req(<<"f", "o", "o">>, <<">", "=", "1">>, None),
   Req(<<"f", "o", "o">>, <<"<", "3">>, None),
   Req(<<"f", "o", "o">>, <<>>, ExtraIs(<<"x">>)),
   Req(<<"b", "a", "r">>, <<>>, ExtraIs(<<"F", "o", "o">>)),
   Req(<<"b", "a", "r">>, <<>>, ExtraIs(<<>>)),
   Req(<<"e", "n", "u", "m", "3", "4">>, <<>>, PythonBelow(<<"3", ".", "0">>)),
   Req(<<"p", "b", "r">>, <<>>, None)}

Texts ==
  {[name |-> n, extras |-> x, requires |-> r] :
     n \in {None} \cup {Some(v) : v \in NameValues},
     x \in SeqsUpTo(ExtraValues, MaxExtraLines),
     r \in SeqsUpTo(ReqValues, MaxReqLines)}

----------------------------------------------------------------------------
(* Wheel.metadata, Wheel.extras, Wheel.dependencies.                        *)

\* d.get(k, default) on a dict whose keys are the fields of a record.
Get(d, k, default) == IF k \in DOMAIN d THEN d[k] ELSE default

\* whl.open(name): the entry's content, or KeyError when the archive has
\* no such entry. The archive holds the entries <dist-info>/metadata.json
\* (field json) and <dist-info>/METADATA (field text), each optional.
Open(a, entry) ==
  LET e == IF entry = "metadata.json" THEN a.json ELSE a.text
  IN  IF e = None THEN Raise("KeyError") ELSE Ok(e[1])

\* json.loads
json_loads(j) == IF j.wellformed THEN Ok(j.doc) ELSE Raise("ValueError")

\* The outcome of a call, with the archive entries the call read.
WithRead(r, entries) == [status |-> r.status, value |-> r.value, read |-> entries]

\* metadata() with the two entries tried in the other order.
metadata_TextFirst(a, e, seed) ==
  LET first == Open(a, "METADATA")
      second == Open(a, "metadata.json")
  IN  IF first.status = "ok"
      THEN WithRead(_parse_metadata(first.value, e, seed), <<"METADATA">>)
      ELSE IF second.status = "ok"
           THEN WithRead(json_loads(second.value), <<"metadata.json">>)
           ELSE WithRead(second, <<>>)

\* metadata(): metadata.json first; on KeyError the METADATA file.
metadata(a, e, seed) ==
  LET first == Open(a, "metadata.json")
      second == Open(a, "METADATA")
  IN  IF first.status = "ok"
      THEN WithRead(json_loads(first.value), <<"metadata.json">>)
      ELSE IF second.status = "ok"
           THEN WithRead(_parse_metadata(second.value, e, seed), <<"METADATA">>)
           ELSE WithRead(second, <<>>)

\* extras()
extras(a, e, seed) ==
  LET md == metadata(a, e, seed)
  IN  IF md.status = "ok"
      THEN WithRead(Ok(Get(md.value, "extras", <<>>)), md.read)
      ELSE md

\* Strip off any trailing versioning data: re.split('[ ><=()]', entry)[0]
StripVersion(entry) == Split(entry, {" ", ">", "<", "=", "(", ")"})[1]

\* dependencies() without the marker test.
SkipForMarker_Never(marker, e) == FALSE

\* The marker test of dependencies(): TRUE to skip the group.
SkipForMarker(marker, e) ==
  marker # None /\ ~evaluate_marker(marker[1], e).value

\* The loop of dependencies() over run_requires: the names yielded so far
\* and the groups still to visit. A marker that cannot be evaluated ends
\* the generator with what it has yielded.
RECURSIVE Yield(_, _, _, _)
Yield(yielded, run_requires, extra, e) ==
  IF run_requires = <<>> THEN Ok(yielded)
  ELSE LET requirement == Head(run_requires)
           marker == Get(requirement, "environment", None)
           requires == Get(requirement, "requires", <<>>)
       IN  IF Get(requirement, "extra", None) # extra
           THEN Yield(yielded, Tail(run_requires), extra, e)
           ELSE IF marker # None /\ evaluate_marker(marker[1], e).status # "ok"
           THEN [status |-> evaluate_marker(marker[1], e).status, value |-> yielded]
           ELSE IF SkipForMarker(marker, e)
           THEN Yield(yielded, Tail(run_requires), extra, e)
           ELSE Yield(yielded \o [i \in 1..Len(requires) |-> StripVersion(requires[i])],
                      Tail(run_requires), extra, e)

\* dependencies(extra)
dependencies(a, e, seed, extra) ==
  LET md == metadata(a, e, seed)
  IN  IF md.status = "ok"
      THEN WithRead(Yield(<<>>, Get(md.value, "run_requires", <<>>), extra, e), md.read)
      ELSE md

----------------------------------------------------------------------------
(* Structured metadata and archives.                                        *)

S_docs == <<"d", "o", "c", "s">>

\* requires lists of metadata.json: the forms of a version qualifier.
RequiresLists ==
  {<<<<"s", "i", "x", " ", "(", ">", "=", "1", ".", "9", ")">>,
     <<"p", "b", "r", ">", "=", "0", ".", "1", "1">>,
     <<"f", "o", "o", "=", "=", "1">>,
     <<"b", "a", "r", "<", "=", "2">>,
     <<"b", "a", "z", " ", "<", "2">>,
     <<"q", "u", "x", ">", "2">>,
     <<"n", "o", "s", "e", "!", "=", "1">>,
     <<"m", "o", "x", "~", "=", "1", ".", "0">>>>}

\* The groups of run_requires.
JsonGroups ==
  {[extra |-> x, environment |-> m, requires |-> r] :
     x \in {None, Some(S_docs)},
     m \in {None, PythonBelow(<<"3", ".", "0">>), PythonFrom(<<"3", ".", "0">>)},
     r \in RequiresLists}

\* metadata.json documents: name alone, or with extras and run_requires.
JsonDocs ==
  {[name |-> n] : n \in NameValues}
    \cup {[name |-> n, extras |-> x, run_requires |-> g] :
            n \in NameValues,
            x \in {<<>>, <<S_docs>>},
            g \in SeqsUpTo(JsonGroups, MaxGroups)}

JsonEntries ==
  {[wellformed |-> TRUE, doc |-> d] : d \in JsonDocs}
    \cup {[wellformed |-> FALSE, doc |-> [name |-> n]] : n \in NameValues}

\* A METADATA text without extras and requirements.
BareTexts == {t \in Texts : t.extras = <<>> /\ t.requires = <<>>}

Archives ==
  {[json |-> None, text |-> None]}
    \cup {[json |-> Some(j), text |-> None] : j \in JsonEntries}
    \cup {[json |-> None, text |-> Some(t)] : t \in Texts}
    \cup {[json |-> Some(j), text |-> Some(t)] : j \in JsonEntries, t \in BareTexts}

\* The extras a caller asks for.
QueryExtras == {<<"x">>, <<"F", "o", "o">>, <<"f", "o", "o">>, S_docs}

WheelPath ==
  <<"m", "o", "c", "k", "-", "2", ".", "0", ".", "0", "-", "p", "y", "2", ".", "p", "y", "3",
    "-", "n", "o", "n", "e", "-", "a", "n", "y", ".", "w", "h", "l">>

----------------------------------------------------------------------------
(* The Wheel as a state machine: calls on a Wheel over a fixed archive.     *)

Called(op, arg, r) ==
  [op |-> op, arg |-> arg, status |-> r.status, value |-> r.value, read |-> r.read]

NotCalled == [op |-> "none", arg |-> None, status |-> "none", value |-> <<>>, read |-> <<>>]

Idle == call = NotCalled

Init ==
  /\ path = WheelPath
  /\ archive \in Archives
  /\ env \in Envs
  /\ call = NotCalled

\* The Wheel is used synchronously: a call is made when none is in
\* progress, and Return hands its outcome back to the caller.
Metadata ==
  /\ Idle
  /\ \E seed \in Seeds : call' = Called("metadata", None, metadata(archive, env, seed))
  /\ UNCHANGED <<path, archive, env>>

Extras ==
  /\ Idle
  /\ \E seed \in Seeds : call' = Called("extras", None, extras(archive, env, seed))
  /\ UNCHANGED <<path, archive, env>>

Dependencies ==
  /\ Idle
  /\ \E seed \in Seeds, extra \in {None} \cup {Some(x) : x \in QueryExtras} :
       call' = Called("dependencies", extra, dependencies(archive, env, seed, extra))
  /\ UNCHANGED <<path, archive, env>>

Return ==
  /\ ~Idle
  /\ call' = NotCalled
  /\ UNCHANGED <<path, archive, env>>

Next == Metadata \/ Extras \/ Dependencies \/ Return

Spec == Init /\ [][Next]_vars

----------------------------------------------------------------------------
(* The identity accessors as a state machine: calls on Wheels constructed   *)
(* with different paths.                                                    *)

Dirs ==
  {<<>>,
   <<"d", "i", "s", "t", "/">>,
   <<"/", "t", "m", "p", "/", "m", "y", "-", "d", "i", "r", "/">>,
   <<"a", "-", "b", "/", "c", ".", "d", "/">>}

Distributions ==
  {<<"m", "o", "c", "k">>,
   <<"g", "o", "o", "g", "l", "e", "_", "c", "l", "o", "u", "d">>,
   <<"z", "o", "p", "e", ".", "i">>}

Versions ==
  {<<"2", ".", "0", ".", "0">>,
   <<"1", ".", "0", "+", "l", "o", "c", "a", "l">>,
   <<"3">>}

\* pytag-abitag-platformtag.whl
Tags ==
  {<<"p", "y", "2", ".", "p", "y", "3", "-", "n", "o", "n", "e", "-", "a", "n", "y", ".", "w", "h", "l">>,
   <<"c", "p", "2", "7", "-", "c", "p", "2", "7", "m", "-", "l", "i", "n", "u", "x", ".", "w", "h", "l">>}

\* File names without a dash.
DashlessNames ==
  {<<"o", "n", "l", "y", "o", "n", "e", "p", "a", "r", "t", ".", "w", "h", "l">>,
   <<"m", "o", "c", "k", ".", "w", "h", "l">>}

WheelFile(dir, d, v, tags) == dir \o d \o <<"-">> \o v \o <<"-">> \o tags

Paths ==
  {WheelFile(dir, d, v, t) : dir \in Dirs, d \in Distributions, v \in Versions, t \in Tags}
    \cup {dir \o n : dir \in Dirs, n \in DashlessNames}

InitIdentity ==
  /\ path \in Paths
  /\ archive = [json |-> None, text |-> None]
  /\ env \in Envs
  /\ call = NotCalled

Distribution ==
  /\ Idle
  /\ call' = Called("distribution", None, WithRead(distribution(path), <<>>))
  /\ UNCHANGED <<path, archive, env>>

Version ==
  /\ Idle
  /\ call' = Called("version", None, WithRead(version(path), <<>>))
  /\ UNCHANGED <<path, archive, env>>

RepositoryName ==
  /\ Idle
  /\ call' = Called("repository_name", None, WithRead(repository_name(path), <<>>))
  /\ UNCHANGED <<path, archive, env>>

NextIdentity == Distribution \/ Version \/ RepositoryName \/ Return

SpecIdentity == InitIdentity /\ [][NextIdentity]_vars

----------------------------------------------------------------------------
(* Properties of the METADATA parser.                                       *)

\* The last call was metadata() and it parsed the METADATA text.
ParsedText == call.op = "metadata" /\ call.read = <<"METADATA">>

\* ... and returned a document.
TextDoc == ParsedText /\ call.status = "ok"

Groups == call.value.run_requires

\* None before every string, strings by code point.
OptLess(a, b) ==
  \/ a = None /\ b # None
  \/ a # None /\ b # None /\ StrLess(a[1], b[1])

\* C1: subtraction law. In a document returned by _parse_metadata, no name
\* in the requires of a group with extra None is in the requires of a group
\* with a named extra.
C1_SubtractionLaw ==
  TextDoc =>
    \A g \in Range(Groups), h \in Range(Groups) :
      (g.extra = None /\ h.extra # None) => Range(g.requires) \cap Range(h.requires) = {}

\* C2: in a document returned by _parse_metadata, the requires list of
\* every group is strictly ascending: sorted, and without a repeated name.
C2_RequiresStrictlyAscending ==
  TextDoc =>
    \A g \in Range(Groups) :
      \A i \in 1..(Len(g.requires) - 1) : StrLess(g.requires[i], g.requires[i + 1])

\* C3: in a document returned by _parse_metadata, the groups are strictly
\* ascending by (extra, marker), None before every named extra and an
\* absent marker before every marker; so no two groups have the same pair.
C3_GroupsStrictlyAscending ==
  TextDoc =>
    \A i \in 1..(Len(Groups) - 1) :
      \/ OptLess(Groups[i].extra, Groups[i + 1].extra)
      \/ /\ Groups[i].extra = Groups[i + 1].extra
         /\ OptLess(Groups[i].marker, Groups[i + 1].marker)

\* The sequences with the same set of elements as s.
SameRange(s, n) == {u \in SeqsUpTo(Range(s), n) : Range(u) = Range(s)}

\* The texts with the same Name and the same set of Provides-Extra and
\* Requires-Dist lines as t, in any order and with any repetition.
SameLineTexts(t) ==
  {[name |-> t.name, extras |-> x, requires |-> r] :
     x \in SameRange(t.extras, MaxExtraLines),
     r \in SameRange(t.requires, MaxReqLines)}

----------------------------------------------------------------------------
(* Properties of the Wheel's queries.                                       *)

\* The document metadata() returns for the archive.
MetadataDoc == metadata(archive, env, "asc").value

\* The marker of a group: the environment field of metadata.json, or the
\* marker field of a parsed METADATA, whose text is read back as a marker.
Markers == {r.marker[1] : r \in {q \in ReqValues : q.marker # None}}

MarkerOfGroup(g) ==
  IF "environment" \in DOMAIN g THEN g.environment
  ELSE IF "marker" \in DOMAIN g /\ g.marker # None
       THEN Some(CHOOSE m \in Markers : MarkerStr(m) = g.marker[1])
       ELSE None

\* A marker holds against env: what it says of the interpreter is true.
\* What it says of extra is the group's extra.
HoldsInEnv(m) == m = None \/ m[1].var = S_extra \/ MarkerEvaluate(m[1], env, None)

\* The requires entries of the groups for the extra asked for whose marker
\* holds, in group order.
RECURSIVE QualifyingEntries(_)
QualifyingEntries(groups) ==
  IF groups = <<>> THEN <<>>
  ELSE (IF Get(Head(groups), "extra", None) = call.arg /\ HoldsInEnv(MarkerOfGroup(Head(groups)))
        THEN Get(Head(groups), "requires", <<>>) ELSE <<>>)
       \o QualifyingEntries(Tail(groups))

IsPrefix(a, b) == Len(a) <= Len(b) /\ SubSeq(b, 1, Len(a)) = a

\* A declaration of the name y for the default target that applies in env:
\* an entry of a metadata.json group without extra, or a Requires-Dist line.
DeclaredForEnv(y) ==
  IF archive.json # None
  THEN \E g \in Range(Get(archive.json[1].doc, "run_requires", <<>>)) :
         /\ g.extra = None
         /\ g.environment = None \/ MarkerEvaluate(g.environment[1], env, None)
         /\ \E entry \in Range(g.requires) : IsPrefix(y, entry)
  ELSE \E r \in Range(archive.text[1].requires) :
         /\ parse_requirements(r).key = y
         /\ r.marker = None \/ MarkerEvaluate(r.marker[1], env, None)

C6_MetadataSource ==
  call.op = "metadata" =>
    /\ archive.json # None =>
         /\ call.read = <<"metadata.json">>
         /\ archive.json[1].wellformed =>
              call.status = "ok" /\ call.value = archive.json[1].doc
    /\ (archive.json = None /\ archive.text # None) =>
         /\ call.read = <<"METADATA">>
         /\ call.status = _parse_metadata(archive.text[1], env, "asc").status
    /\ (archive.json = None /\ archive.text = None) =>
         call.status # "ok" /\ call.value = <<>> /\ call.read = <<>>

\* C6's case: metadata() on an archive that has both entries.
C6_Witness ==
  /\ call.op = "metadata" /\ call.status = "ok"
  /\ archive.json # None /\ archive.text # None

\* C9: every string dependencies() yields is a bare name: it has no
\* character of a comparison operator, no parenthesis and no blank.
C9_NamesOnly ==
  (call.op = "dependencies" /\ call.status = "ok") =>
    \A y \in Range(call.value) :
      Range(y) \cap {"=", "!", "<", ">", "~", "(", ")", " "} = {}

\* The requirements of the text that apply with extra bound to x.
Applicable(x) ==
  {parse_requirements(r) :
     r \in {q \in Range(archive.text[1].requires) :
              q.marker = None \/ MarkerEvaluate(q.marker[1], env, x)}}

\* C10: for text-format input, the extra of every group is None or one of
\* the document's extras, and for every declared extra e, dependencies(e)
\* yields exactly the names of the requirements that apply with extra bound
\* to e, less the common requirements.
C10_ExtrasKeyedAsDeclared ==
  /\ TextDoc =>
       \A g \in Range(Groups) : g.extra = None \/ g.extra[1] \in Range(call.value.extras)
  /\ ( /\ call.op = "dependencies" /\ call.status = "ok"
       /\ call.read = <<"METADATA">>
       /\ call.arg # None
       /\ call.arg[1] \in Range(archive.text[1].extras) ) =>
       Range(call.value) = {r.key : r \in Applicable(call.arg) \ Applicable(None)}

----------------------------------------------------------------------------
(* Properties of the identity accessors.                                    *)

IdentityCall == call.op \in {"distribution", "version", "repository_name"}

\* C7: on a file name without a dash, distribution(), version() and
\* repository_name() all end in an error.
C7_DashlessNameFails ==
  \A dir \in Dirs, n \in DashlessNames :
    (path = dir \o n /\ IdentityCall) => call.status # "ok"

\* pypi__D_V with every -, . and + replaced by _.
Escaped(s) == [i \in 1..Len(s) |-> IF s[i] \in {"-", ".", "+"} THEN "_" ELSE s[i]]

\* C8: on a file D-V-pytag-abitag-platformtag under any directory,
\* distribution() is D, version() is V and repository_name() is pypi__D_V
\* with every -, . and + replaced by _.
C8_Identity ==
  \A dir \in Dirs, d \in Distributions, v \in Versions, t \in Tags :
    (path = WheelFile(dir, d, v, t) /\ IdentityCall) =>
      /\ call.status = "ok"
      /\ call.op = "distribution" => call.value = d
      /\ call.op = "version" => call.value = v
      /\ call.op = "repository_name" =>
           call.value = Escaped(<<"p", "y", "p", "i", "_", "_">> \o d \o <<"_">> \o v)

\* C8's case: repository_name() on a path whose directory has a dash and
\* whose name has characters to escape.
C8_Witness ==
  /\ call.op = "repository_name" /\ call.status = "ok"
  /\ \E dir \in Dirs, d \in Distributions, v \in Versions, t \in Tags :
       /\ path = WheelFile(dir, d, v, t)
       /\ "-" \in Range(dir)
       /\ {".", "+"} \subseteq Range(d \o v)

====
